---- MODULE Spec2Model ----
(***************************************************************************)
(* Model of the image colour analyser HandleImage.                         *)
(*                                                                         *)
(*   src/src/handle_image.rs   the library version of HandleImage          *)
(*   src/src/main.rs           the binary, with its own copy of HandleImage*)
(*                                                                         *)
(* A pixel grid (RgbImage) is modelled by its width, its height and the    *)
(* multiset of its pixels: no code of the repository reads a pixel         *)
(* position, the only access is the iteration `pixels()`.  The multiset is *)
(* written as a set of runs [from, to, times]: every colour c with         *)
(* from[i] <= c[i] <= to[i] on the three channels occurs `times` times.    *)
(* A HashSet of colours is written the same way, as a set of boxes         *)
(* [from, to]; Members gives its elements.                                 *)
(***************************************************************************)
EXTENDS Integers, Sequences, FiniteSets, Bags, TLC

(***************************************************************************)
(* Floating point.  A float is a record                                    *)
(*    [kind |-> "num", bits |-> <<b1,...,bn>>, exp |-> e]                  *)
(* whose value is (b1...bn read as a binary number, b1 = 1) * 2^e, zero    *)
(* being the empty bit string; or [kind |-> "inf"] / [kind |-> "nan"].     *)
(* Results are rounded to the precision p of the type (24 bits for f32, 53 *)
(* for f64), ties to even, as IEEE 754 arithmetic does.  All the values of *)
(* the program are non-negative, so there is no sign.                      *)
(***************************************************************************)
F32 == 24
F64 == 53

\* number of bits of n
BitLength(n) == IF n = 0 THEN 0 ELSE CHOOSE k \in 1..31 : 2^(k-1) <= n /\ (k = 31 \/ n < 2^k)

\* n in binary, most significant bit first, no leading zero
BitsOfNat(n) == [i \in 1..BitLength(n) |-> (n \div 2^(BitLength(n) - i)) % 2]

\* a bit string without its leading zeros
StripZeros(b) ==
  IF \A i \in 1..Len(b) : b[i] = 0 THEN << >>
  ELSE SubSeq(b, CHOOSE i \in 1..Len(b) : b[i] = 1 /\ \A j \in 1..(i-1) : b[j] = 0, Len(b))

\* base-256 digits (most significant first) to bits and back
DigitsToBits(ds) ==
  [i \in 1..(8 * Len(ds)) |-> (ds[((i - 1) \div 8) + 1] \div 2^(7 - ((i - 1) % 8))) % 2]

BitsToDigits(b) ==
  LET nd    == (Len(b) + 7) \div 8
      pad   == 8 * nd - Len(b)
      at(i) == IF i <= pad THEN 0 ELSE b[i - pad]
  IN  [k \in 1..nd |->
         128 * at(8*k - 7) + 64 * at(8*k - 6) + 32 * at(8*k - 5) + 16 * at(8*k - 4)
         + 8 * at(8*k - 3) + 4 * at(8*k - 2) + 2 * at(8*k - 1) + at(8*k)]

\* the number a bit string of at most 31 bits stands for
RECURSIVE NatOfDigits(_)
NatOfDigits(ds) ==
  IF ds = << >> THEN 0
  ELSE 256 * NatOfDigits(SubSeq(ds, 1, Len(ds) - 1)) + ds[Len(ds)]

NatOfBits(b) == NatOfDigits(BitsToDigits(b))

Nan == [kind |-> "nan", bits |-> << >>, exp |-> 0]
Inf == [kind |-> "inf", bits |-> << >>, exp |-> 0]
Num(b, e) == [kind |-> "num", bits |-> b, exp |-> e]
Zero == Num(<< >>, 0)
One == Num(<<1>>, 0)

IsZero(x) == x.kind = "num" /\ x.bits = << >>

\* b + 1 on a bit string; all ones carries into one more bit
IncBits(b) ==
  IF \A i \in 1..Len(b) : b[i] = 1 THEN [i \in 1..(Len(b) + 1) |-> IF i = 1 THEN 1 ELSE 0]
  ELSE LET z == CHOOSE i \in 1..Len(b) : b[i] = 0 /\ \A j \in (i+1)..Len(b) : b[j] = 1
       IN  [i \in 1..Len(b) |-> IF i < z THEN b[i] ELSE IF i = z THEN 1 ELSE 0]

\* round the value (b * 2^e, plus a non-zero tail below it when sticky) to
\* p significant bits, to nearest, ties to even
RoundToPrecision(b, sticky, e, p) ==
  IF Len(b) <= p THEN Num(b, e)
  ELSE LET keep == SubSeq(b, 1, p)
           rest == SubSeq(b, p + 1, Len(b))
           tail == sticky \/ \E i \in 2..Len(rest) : rest[i] = 1
           up   == rest[1] = 1 /\ (tail \/ keep[p] = 1)
           e2   == e + Len(rest)
           inc  == IncBits(keep)
       IN  IF ~up THEN Num(keep, e2)
           ELSE IF Len(inc) > p THEN Num(SubSeq(inc, 1, p), e2 + 1)
           ELSE Num(inc, e2)

\* `n as f32`, `n as f64`
IntToFloat(n, p) == RoundToPrecision(BitsOfNat(n), FALSE, 0, p)

\* the integer a float holds (used on floats that came from integers)
NatValue(x) == NatOfBits(x.bits) * 2^(x.exp)

\* long division r / d (r < d) in base 256: the first k fractional digits
\* of the quotient and the remainder left after them
RECURSIVE FracDigits(_, _, _)
FracDigits(r, d, k) ==
  IF k = 0 THEN [digits |-> << >>, rem |-> r]
  ELSE LET prev == FracDigits(r, d, k - 1)
       IN  [digits |-> Append(prev.digits, (256 * prev.rem) \div d),
            rem    |-> (256 * prev.rem) % d]

\* fractional digits computed by a division: enough for p significant bits
\* and a rounding bit whatever the size of the quotient (d < 2^23)
DivDigits(p) == (p + 32) \div 8 + 1

\* x / y for floats holding integers
FloatDiv(x, y, p) ==
  IF x.kind = "nan" \/ y.kind = "nan" THEN Nan
  ELSE IF IsZero(y) THEN (IF IsZero(x) THEN Nan ELSE Inf)
  ELSE IF IsZero(x) THEN Zero
  ELSE LET n == NatValue(x)
           d == NatValue(y)
           f == FracDigits(n % d, d, DivDigits(p))
           b == StripZeros(BitsOfNat(n \div d) \o DigitsToBits(f.digits))
       IN  RoundToPrecision(b, f.rem # 0, 0 - 8 * DivDigits(p), p)

\* ds * n on base-256 digits, n a positive integer; the result has one
\* more leading digit group, the final carry
RECURSIVE MulDigits(_, _)
MulDigits(ds, n) ==
  IF ds = << >> THEN [digits |-> << >>, carry |-> 0]
  ELSE LET low == MulDigits(SubSeq(ds, 2, Len(ds)), n)
           v   == ds[1] * n + low.carry
       IN  [digits |-> <<v % 256>> \o low.digits, carry |-> v \div 256]

MulBits(b, n) ==
  LET m == MulDigits(BitsToDigits(b), n)
  IN  StripZeros(BitsOfNat(m.carry) \o DigitsToBits(m.digits))

\* x * y, x a float holding an integer
FloatMul(x, y, p) ==
  IF x.kind = "nan" \/ y.kind = "nan" THEN Nan
  ELSE IF y.kind = "inf" THEN (IF IsZero(x) THEN Nan ELSE Inf)
  ELSE IF IsZero(x) \/ IsZero(y) THEN Zero
  ELSE RoundToPrecision(MulBits(y.bits, NatValue(x)), FALSE, y.exp, p)

\* x > 1.0
GreaterThanOne(x) ==
  \/ x.kind = "inf"
  \/ /\ x.kind = "num"
     /\ x.bits # << >>
     /\ \/ Len(x.bits) + x.exp > 1
        \/ Len(x.bits) + x.exp = 1 /\ \E i \in 2..Len(x.bits) : x.bits[i] = 1

\* x.round(): to the nearest integer, halves away from zero
FloatRound(x) ==
  IF x.kind # "num" \/ x.exp >= 0 THEN x
  ELSE LET k    == 0 - x.exp
           n    == Len(x.bits)
           ip   == IF n > k THEN SubSeq(x.bits, 1, n - k) ELSE << >>
           half == n >= k /\ x.bits[n - k + 1] = 1
       IN  Num(IF half THEN IncBits(ip) ELSE ip, 0)

\* `x as u8`, `x as u32` of a rounded float: NaN gives 0, the cast saturates
FloatToInt(x, max) ==
  IF x.kind = "nan" THEN 0
  ELSE IF x.kind = "inf" THEN max
  ELSE IF Len(x.bits) + x.exp > 31 THEN max
  ELSE LET v == NatValue(x) IN IF v > max THEN max ELSE v

(***************************************************************************)
(* Values.                                                                 *)
(***************************************************************************)
U8_MAX == 255
\* the cast `as u32` saturates; the model saturates at its own largest
\* integer, 2^31 - 1, which no dimension of the model comes near
U32_MAX_MODEL == (2^30 - 1) * 2 + 1

None == [tag |-> "None"]
Some(v) == [tag |-> "Some", value |-> v]

\* RgbImage: width, height and the runs of the pixels `pixels()` yields
Grid(w, h, px) == [width |-> w, height |-> h, pixels |-> px]
NoImage == [width |-> 0 - 1, height |-> 0 - 1, pixels |-> {}]

Run(lo, hi, n) == [from |-> lo, to |-> hi, times |-> n]

\* the runs of a bag of colours
RunsOfBag(b) == {Run(c, c, b[c]) : c \in DOMAIN b}

Box(lo, hi) == [from |-> lo, to |-> hi]

\* the colours of a run or of a box
ColorsOfBox(box) ==
  (box.from[1]..box.to[1]) \X (box.from[2]..box.to[2]) \X (box.from[3]..box.to[3])

\* the elements of a HashSet<[u8; 3]>
Members(boxes) == UNION {ColorsOfBox(box) : box \in boxes}

RECURSIVE PixelsOfRuns(_)
PixelsOfRuns(runs) ==
  IF runs = {} THEN 0
  ELSE LET run == CHOOSE x \in runs : TRUE
       IN  (run.to[1] - run.from[1] + 1) * (run.to[2] - run.from[2] + 1)
             * (run.to[3] - run.from[3] + 1) * run.times
           + PixelsOfRuns(runs \ {run})

\* the number of pixels of a grid
PixelCount(grid) == PixelsOfRuns(grid.pixels)

\* ---- the inputs of the model ------------------------------------------
MaxPixels == 3   \* small grids have at most this many pixels

Palette ==
  { <<0, 0, 0>>, <<10, 20, 30>>, <<100, 100, 100>>, <<50, 51, 50>>,
    <<10, 10, 200>>, <<255, 0, 1>> }

\* thresholds handed to check_grayscale
Thresholds == {0, 1, 5, 21, 255}

\* all bags of n pixels over a set of colours
RECURSIVE BagsOfSize(_, _)
BagsOfSize(n, cs) ==
  IF n = 0 THEN {EmptyBag}
  ELSE IF cs = {} THEN {}
  ELSE LET c == CHOOSE x \in cs : TRUE
       IN  UNION { { IF k = 0 THEN b ELSE b (+) [x \in {c} |-> k]
                     : b \in BagsOfSize(n - k, cs \ {c}) } : k \in 0..n }

SmallDims == {<<0, 0>>} \cup {d \in (1..MaxPixels) \X (1..MaxPixels) : d[1] * d[2] <= MaxPixels}

\* large grids: more than 500 pixels on both sides, so that they are
\* downsampled; their pixels are of one colour, or all but one are
LargeDims == {<<501, 501>>, <<1000, 600>>, <<600, 1000>>, <<1206, 1200>>}
LargePalette == {<<100, 100, 100>>, <<10, 10, 200>>}
LargeBags(n) ==
  IF n = 0 THEN {EmptyBag}
  ELSE IF n <= MaxPixels THEN BagsOfSize(n, Palette)
  ELSE {[x \in {c} |-> n] : c \in LargePalette}
       \cup {[x \in LargePalette |-> IF x = c THEN 1 ELSE n - 1] : c \in LargePalette}

GridsOfDims(d) == {Grid(d[1], d[2], RunsOfBag(b)) : b \in LargeBags(d[1] * d[2])}

\* the grids the decoders yield
Originals == UNION {GridsOfDims(d) : d \in SmallDims \cup LargeDims}

\* an image file of many colours: 257 x 256 pixels of 65537 distinct
\* colours, whose red channel has the mean 12550335 / 65537 = 191.4999924
ManyColorsImage ==
  Grid(257, 256, { Run(<<128, 0, 0>>, <<255, 255, 1>>, 1),
                   Run(<<191, 0, 2>>, <<191, 0, 2>>, 256) })

\* the grids image files decode to
Files == Originals \cup {ManyColorsImage}

(***************************************************************************)
(* src/src/handle_image.rs: the helpers.                                   *)
(***************************************************************************)
get_difference(f, s) == IF f < s THEN s - f ELSE f - s

smaller(x, y) == IF x < y THEN x ELSE y

\* (u as f64 * f).round() as u32
calculate(u, f) == FloatToInt(FloatRound(FloatMul(IntToFloat(u, F64), f, F64)), U32_MAX_MODEL)

\* the ratio of compressing_image: 500.0 / smaller(width, height), at most 1.0
compressing_ratio(width, height) ==
  LET ratio == FloatDiv(IntToFloat(500, F64), IntToFloat(smaller(width, height), F64), F64)
  IN  IF GreaterThanOne(ratio) THEN One ELSE ratio

\* the dimensions compressing_image asks `resize` for
compressing_dims(image) ==
  LET ratio == compressing_ratio(image.width, image.height)
  IN  <<calculate(image.width, ratio), calculate(image.height, ratio)>>

\* image.resize(nwidth, nheight, FilterType::Triangle).to_rgb8(): the work of
\* the image library.  A resize to the size the image has copies it (the
\* triangle filter at scale 1 has weight 1 on the pixel itself); any other
\* resize yields some grid of the requested size.
resize(image, nwidth, nheight) ==
  IF <<nwidth, nheight>> = <<image.width, image.height>> THEN {image}
  ELSE GridsOfDims(<<nwidth, nheight>>)

compressing_image(image) ==
  LET d == compressing_dims(image) IN resize(image, d[1], d[2])

\* for pix in self.compressed_image.pixels() { seen.insert(..) }
ScanPixels(grid) == {Box(run.from, run.to) : run \in grid.pixels}

\* the sum of channel i over the colours of arr with lo <= c[i] <= hi.
\* The loop adds into a u64, which cannot overflow (at most 2^24 colours of
\* at most 255), so the total is the sum whatever the iteration order.
RECURSIVE SumChannel(_, _, _, _)
SumChannel(arr, i, lo, hi) ==
  IF arr = {} THEN 0
  ELSE IF lo = hi THEN lo * Cardinality(arr)
  ELSE LET mid == (lo + hi) \div 2
       IN  SumChannel({c \in arr : c[i] <= mid}, i, lo, mid)
           + SumChannel({c \in arr : c[i] > mid}, i, mid + 1, hi)

\* (f as f32 / arr.len() as f32).round() as u8
RoundedMean(f, len) ==
  FloatToInt(FloatRound(FloatDiv(IntToFloat(f, F32), IntToFloat(len, F32), F32)), U8_MAX)

\* the loop and the result of the Some(arr) arm of get_dominant_color
dominant_of_values(values, len) ==
  << RoundedMean(SumChannel(values, 1, 0, U8_MAX), len),
     RoundedMean(SumChannel(values, 2, 0, U8_MAX), len),
     RoundedMean(SumChannel(values, 3, 0, U8_MAX), len) >>

\* the Some(arr) arm of get_dominant_color
dominant_of(arr) == dominant_of_values(Members(arr), Cardinality(Members(arr)))

\* neutral with the comparisons made inclusive
neutral_inclusive(value, threshold) ==
  /\ get_difference(value[1], value[2]) <= threshold
  /\ get_difference(value[2], value[3]) <= threshold
  /\ get_difference(value[1], value[3]) <= threshold

\* the test of check_grayscale on one colour
neutral(value, threshold) ==
  /\ get_difference(value[1], value[2]) < threshold
  /\ get_difference(value[2], value[3]) < threshold
  /\ get_difference(value[1], value[3]) < threshold

\* the Some(arr) arm of check_grayscale: vec.iter().all(|&item| item)
grayscale_of(arr, threshold) == \A value \in Members(arr) : neutral(value, threshold)

\* differences without the one between the first and the last channel
differences_of_neighbours(value) ==
  { get_difference(value[1], value[2]),
    get_difference(value[2], value[3]) }

\* the differences get_grayscale_threshold pushes for one colour
differences(value) ==
  { get_difference(value[1], value[2]),
    get_difference(value[1], value[3]),
    get_difference(value[2], value[3]) }

\* the Some(arr) arm of get_grayscale_threshold: vec.iter().max_by_key(..)
threshold_of(arr) ==
  LET vec == UNION {differences(value) : value \in Members(arr)}
  IN  IF vec = {} THEN None
      ELSE Some(CHOOSE v \in vec : \A w \in vec : w <= v)

(***************************************************************************)
(* The methods, as functions of the analyzer's mutable part                *)
(*   self = [colors |-> Option<HashSet>, scans |-> pixel iterations so far]*)
(* and of its working copy.  They return the new self, the value returned  *)
(* and the number of calls the method made to itself.                      *)
(***************************************************************************)
\* get_colors that returns the set without storing it
get_colors_call_unstored(self, compressed) ==
  IF self.colors.tag = "Some"
  THEN [self |-> self, ret |-> self.colors.value, reentries |-> 0]
  ELSE [self |-> [self EXCEPT !.scans = @ + 1],
        ret |-> ScanPixels(compressed), reentries |-> 0]

get_colors_call(self, compressed) ==
  IF self.colors.tag = "Some"
  THEN [self |-> self, ret |-> self.colors.value, reentries |-> 0]
  ELSE LET seen == ScanPixels(compressed)
       IN  [self |-> [colors |-> Some(seen), scans |-> self.scans + 1],
            ret |-> seen, reentries |-> 0]

RECURSIVE get_dominant_color_call(_, _)
get_dominant_color_call(self, compressed) ==
  IF self.colors.tag = "Some"
  THEN [self |-> self, ret |-> dominant_of(self.colors.value), reentries |-> 0]
  ELSE LET scanned == [self EXCEPT !.scans = @ + 1]   \* the loop into `seen`
           filled  == get_colors_call(scanned, compressed)
           again   == get_dominant_color_call(filled.self, compressed)
       IN  [again EXCEPT !.reentries = @ + 1]

\* check_grayscale that fills the cache and answers without looking at it
check_grayscale_call_blind(self, compressed, threshold) ==
  IF self.colors.tag = "Some"
  THEN [self |-> self, ret |-> grayscale_of(self.colors.value, threshold), reentries |-> 0]
  ELSE [self |-> get_colors_call(self, compressed).self,
        ret |-> grayscale_of({}, threshold), reentries |-> 0]

RECURSIVE check_grayscale_call(_, _, _)
check_grayscale_call(self, compressed, threshold) ==
  IF self.colors.tag = "Some"
  THEN [self |-> self, ret |-> grayscale_of(self.colors.value, threshold), reentries |-> 0]
  ELSE LET filled == get_colors_call(self, compressed)
           again  == check_grayscale_call(filled.self, compressed, threshold)
       IN  [again EXCEPT !.reentries = @ + 1]

RECURSIVE get_grayscale_threshold_call(_, _)
get_grayscale_threshold_call(self, compressed) ==
  IF self.colors.tag = "Some"
  THEN [self |-> self, ret |-> threshold_of(self.colors.value), reentries |-> 0]
  ELSE LET filled == get_colors_call(self, compressed)
           again  == get_grayscale_threshold_call(filled.self, compressed)
       IN  [again EXCEPT !.reentries = @ + 1]

(***************************************************************************)
(* src/src/main.rs: its copy of compressing_image does not clamp the       *)
(* ratio.  Its smaller, calculate, get_colors, check_grayscale,            *)
(* get_difference and get_dimensions are the same text as in               *)
(* handle_image.rs.                                                        *)
(***************************************************************************)
main_compressing_ratio(width, height) ==
  FloatDiv(IntToFloat(500, F64), IntToFloat(smaller(width, height), F64), F64)

main_compressing_dims(image) ==
  LET ratio == main_compressing_ratio(image.width, image.height)
  IN  <<calculate(image.width, ratio), calculate(image.height, ratio)>>

main_compressing_image(image) ==
  LET d == main_compressing_dims(image) IN resize(image, d[1], d[2])

(***************************************************************************)
(* The state.                                                              *)
(***************************************************************************)
VARIABLES
  status,            \* "none" before acquisition, then "ready", "error" or "panic"
  err,               \* the error returned by a failed acquisition
  src,               \* what the path or the URL led to
  image,             \* HandleImage.image
  compressed_image,  \* HandleImage.compressed_image
  cached, cache,     \* HandleImage.colors: whether it is Some, and the set it then holds
  requested,         \* the dimensions compressing_image asked resize for
  op, arg, ret,      \* the last call, its argument and what it returned
  scans,             \* how many times the pixels of the working copy were iterated
  reentries,         \* how many calls to itself the last call made
  miss               \* whether the cache was absent when the last call began

vars == <<status, err, src, image, compressed_image, cached, cache, requested,
          op, arg, ret, scans, reentries, miss>>

\* HandleImage.colors
colors == IF cached THEN Some(cache) ELSE None

\* self.colors = value
SetColors(value) ==
  /\ cached' = (value.tag = "Some")
  /\ cache' = IF value.tag = "Some" THEN value.value ELSE {}

NoRet == [kind |-> "none"]
Ret(k, v) == [kind |-> k, value |-> v]

Init ==
  /\ status = "none"
  /\ err = "none"
  /\ src = "none"
  /\ image = NoImage
  /\ compressed_image = NoImage
  /\ cached = FALSE
  /\ cache = {}
  /\ requested = <<0, 0>>
  /\ op = "none"
  /\ arg = 0
  /\ ret = NoRet
  /\ scans = 0
  /\ reentries = 0
  /\ miss = FALSE

\* an acquisition that returns Err(e), or panics
Fails(name, source, outcome, e) ==
  /\ status' = outcome
  /\ err' = e
  /\ src' = source
  /\ op' = name
  /\ UNCHANGED <<image, compressed_image, cached, cache, requested, arg, ret, scans, reentries, miss>>

\* Ok(Self { image: img.to_rgb8(), compressed_image: .., colors: None })
Constructs(name, source, img, dims, compressed) ==
  /\ status' = "ready"
  /\ err' = "none"
  /\ src' = source
  /\ op' = name
  /\ image' = img
  /\ compressed_image' = compressed
  /\ SetColors(None)
  /\ requested' = dims
  /\ UNCHANGED <<arg, ret, scans, reentries, miss>>

\* HandleImage::set(src)
set ==
  /\ status = "none"
  /\ \/ Fails("set", "missing file", "error", "io")            \* ImageReader::open(src)?
     \/ Fails("set", "undecodable file", "error", "decode")    \* .decode()?
     \/ \E img \in Files : \E c \in compressing_image(img) :
          Constructs("set", "image file", img, compressing_dims(img), c)

\* HandleImage::set_from_web(src); a JPEG has at least one pixel
set_from_web ==
  /\ status = "none"
  /\ \/ Fails("set_from_web", "unreachable", "error", "fetch")  \* reqwest::get(src).await?.bytes().await?
     \/ Fails("set_from_web", "not a JPEG", "error", "decode")  \* load_from_memory_with_format(..)?
     \/ \E img \in Originals : \E c \in compressing_image(img) :
          /\ img.width >= 1
          /\ Constructs("set_from_web", "JPEG", img, compressing_dims(img), c)

\* the effect of a method call with result r
Returns(name, a, kind, r) ==
  /\ status = "ready"
  /\ SetColors(r.self.colors)
  /\ scans' = r.self.scans
  /\ ret' = Ret(kind, r.ret)
  /\ reentries' = r.reentries
  /\ op' = name
  /\ arg' = a
  /\ miss' = (colors = None)
  /\ UNCHANGED <<status, err, src, image, compressed_image, requested>>

Self == [colors |-> colors, scans |-> scans]

get_colors ==
  Returns("get_colors", 0, "colors", get_colors_call(Self, compressed_image))

get_dominant_color ==
  Returns("get_dominant_color", 0, "color", get_dominant_color_call(Self, compressed_image))

check_grayscale ==
  \E threshold \in Thresholds :
    Returns("check_grayscale", threshold, "bool",
            check_grayscale_call(Self, compressed_image, threshold))

get_grayscale_threshold ==
  Returns("get_grayscale_threshold", 0, "option",
          get_grayscale_threshold_call(Self, compressed_image))

\* get_dimensions that reads the working copy
get_dimensions_of_copy(img) == <<compressed_image.width, compressed_image.height>>

\* [self.image.width(), self.image.height()]
get_dimensions_call(img) == <<img.width, img.height>>

get_dimensions ==
  Returns("get_dimensions", 0, "dims",
          [self |-> Self, ret |-> get_dimensions_call(image), reentries |-> 0])

Next ==
  \/ set
  \/ set_from_web
  \/ get_colors
  \/ get_dominant_color
  \/ check_grayscale
  \/ get_grayscale_threshold
  \/ get_dimensions

Spec == Init /\ [][Next]_vars

(***************************************************************************)
(* src/src/main.rs: the HandleImage of the binary.                         *)
(***************************************************************************)
main_set ==
  /\ status = "none"
  /\ \/ Fails("set", "missing file", "error", "io")
     \/ Fails("set", "undecodable file", "error", "decode")
     \/ \E img \in Files : \E c \in main_compressing_image(img) :
          Constructs("set", "image file", img, main_compressing_dims(img), c)

main_set_from_web ==
  /\ status = "none"
  /\ \/ Fails("set_from_web", "unreachable", "error", "fetch")  \* reqwest::get(..).await?.bytes().await?
     \/ Fails("set_from_web", "not a JPEG", "panic", "none")    \* load_from_memory_with_format(..).unwrap()
     \/ \E img \in Originals : \E c \in main_compressing_image(img) :
          /\ img.width >= 1
          /\ Constructs("set_from_web", "JPEG", img, main_compressing_dims(img), c)

main_get_colors == get_colors

main_check_grayscale == check_grayscale

main_get_dimensions == get_dimensions

MainNext ==
  \/ main_set
  \/ main_set_from_web
  \/ main_get_colors
  \/ main_check_grayscale
  \/ main_get_dimensions

MainSpec == Init /\ [][MainNext]_vars

(***************************************************************************)
(* The properties.                                                         *)
(***************************************************************************)
Abs(x) == IF x < 0 THEN 0 - x ELSE x

\* the distinct colours of the working copy
Distinct ==
  UNION { {c \in (run.from[1]..run.to[1]) \X (run.from[2]..run.to[2]) \X (run.from[3]..run.to[3])
             : run.times >= 1}
          : run \in compressed_image.pixels }

\* C1: check_grayscale(t) returns true exactly when every colour of the set
\* has its three pairwise channel differences strictly below t.
C1_GrayscaleIffAllNeutral ==
  op = "check_grayscale" =>
    ret.value = (\A c \in Distinct :
                   /\ Abs(c[1] - c[2]) < arg
                   /\ Abs(c[2] - c[3]) < arg
                   /\ Abs(c[1] - c[3]) < arg)

\* C1 witness: {(100,100,100),(50,51,50)} with threshold 1 is not grayscale
C1_Witness ==
  /\ op = "check_grayscale"
  /\ arg = 1
  /\ Distinct = {<<100, 100, 100>>, <<50, 51, 50>>}
  /\ ret.value = FALSE

\* result is, in each channel, at most one half away from the mean of values
NearestToMean(result, values, n) ==
  \A i \in 1..3 : Abs(2 * n * result[i] - 2 * SumChannel(values, i, 0, 255)) <= n

\* C2: get_dominant_color returns, for each channel, the sum of the channel
\* over the distinct colours divided by their number, rounded to the nearest
\* integer (at most one half away from the mean).
C2_DominantIsRoundedMean ==
  (op = "get_dominant_color" /\ compressed_image.pixels # {}) =>
    NearestToMean(ret.value, Distinct, Cardinality(Distinct))

\* C3: on an empty colour set get_dominant_color surfaces EmptyInputError.
C3_EmptyDominantIsError ==
  (op = "get_dominant_color" /\ Distinct = {}) => ret.kind = "error"

\* C4: get_grayscale_threshold returns none exactly on the empty set, and
\* otherwise the largest pairwise channel difference of any colour m; when
\* m < 255, the set is grayscale for m + 1 and not for m.
C4_ThresholdIsMaxDifference ==
  op = "get_grayscale_threshold" =>
    /\ ret.kind = "option"
    /\ (ret.value = None) <=> (Distinct = {})
    /\ Distinct # {} =>
         /\ ret.value.tag = "Some"
         /\ \E c \in Distinct : \E i, j \in 1..3 : Abs(c[i] - c[j]) = ret.value.value
         /\ \A c \in Distinct : \A i, j \in 1..3 : Abs(c[i] - c[j]) <= ret.value.value
         /\ ret.value.value < 255 =>
              /\ check_grayscale_call(Self, compressed_image, ret.value.value + 1).ret
              /\ ~check_grayscale_call(Self, compressed_image, ret.value.value).ret

\* C4 witness: a threshold below 255 found on several colours
C4_Witness ==
  /\ op = "get_grayscale_threshold"
  /\ Cardinality(Distinct) >= 2
  /\ ret.value = Some(20)

\* C5: the cache is absent or the set of distinct colours of the working
\* copy, get_colors returns that set, and a present cache never changes.
C5_CacheIsDistinctColorsForever ==
  /\ [](status = "ready" =>
          /\ ~cached \/ Members(cache) = Distinct
          /\ op = "get_colors" => (Members(ret.value) = Distinct /\ colors = Some(ret.value)))
  /\ [][colors # None => colors' = colors]_vars

\* C5 witness: a second get_colors, answered from the cache
C5_Witness ==
  /\ op = "get_colors"
  /\ ~miss
  /\ cached /\ Members(cache) = Distinct
  /\ Cardinality(Distinct) >= 2

\* C6: over any sequence of calls the pixels of the working copy are
\* iterated exactly once: by the call that fills the cache.
C6_PixelsScannedOnce ==
  status = "ready" => scans = (IF colors = None THEN 0 ELSE 1)

\* C7: for a source of W >= 1 by H >= 1 the dimensions asked for are
\* round(W * ratio) and round(H * ratio), ratio = min(1, 500 / min(W, H));
\* they do not exceed the original dimensions and are at least 1.
C7_RequestedDimensions ==
  (status = "ready" /\ image.width >= 1 /\ image.height >= 1) =>
    LET W == image.width
        H == image.height
        m == IF W < H THEN W ELSE H
    IN  /\ requested[1] <= W /\ requested[2] <= H
        /\ requested[1] >= 1 /\ requested[2] >= 1
        /\ m <= 500 => requested = <<W, H>>
        /\ m > 500 => /\ Abs(2 * m * requested[1] - 1000 * W) <= m
                      /\ Abs(2 * m * requested[2] - 1000 * H) <= m

\* C8: an acquisition returns a whole analyzer or an error and no analyzer;
\* an unreachable URL gives a fetch error, a body that is not a JPEG a decode
\* error, and the program is never aborted.
C8_AcquisitionAllOrNothing ==
  /\ status # "panic"
  /\ status \in {"none", "error"} =>
       image = NoImage /\ compressed_image = NoImage /\ colors = None
  /\ src = "unreachable" => (status = "error" /\ err = "fetch")
  /\ src = "not a JPEG" => (status = "error" /\ err = "decode")
  /\ (status = "ready" /\ op \in {"set", "set_from_web"}) =>
       /\ image # NoImage /\ compressed_image # NoImage /\ colors = None
       /\ PixelCount(image) = image.width * image.height
       /\ PixelCount(compressed_image)
            = compressed_image.width * compressed_image.height

\* C9: get_dimensions returns the width and height of the original grid,
\* and no call on an analyzer changes the original grid or the working copy.
C9_DimensionsOfOriginalGridsFrozen ==
  /\ [](op = "get_dimensions" => ret.value = <<image.width, image.height>>)
  /\ [][status = "ready" =>
          (image' = image /\ compressed_image' = compressed_image)]_vars

\* C9 witness: dimensions asked of an analyzer whose working copy is smaller
C9_Witness ==
  /\ op = "get_dimensions"
  /\ ret.value = <<1000, 600>>
  /\ compressed_image.width = 833 /\ compressed_image.height = 500

\* the analyzer once get_colors has filled the cache
Populated == get_colors_call([colors |-> None, scans |-> 0], compressed_image).self

\* C10: get_dominant_color, check_grayscale and get_grayscale_threshold
\* called on an absent cache fill it, call themselves exactly once, and
\* return what they return on a cache that get_colors has filled.
C10_LazyFillThenSameResult ==
  op \in {"get_dominant_color", "check_grayscale", "get_grayscale_threshold"} =>
    /\ colors = Populated.colors
    /\ reentries = (IF miss THEN 1 ELSE 0)
    /\ op = "get_dominant_color" =>
         ret.value = get_dominant_color_call(Populated, compressed_image).ret
    /\ op = "check_grayscale" =>
         ret.value = check_grayscale_call(Populated, compressed_image, arg).ret
    /\ op = "get_grayscale_threshold" =>
         ret.value = get_grayscale_threshold_call(Populated, compressed_image).ret

\* C10 witness: a check_grayscale that found no cache and went round once
C10_Witness ==
  /\ op = "check_grayscale"
  /\ miss
  /\ reentries = 1
  /\ arg = 21
  /\ ret.value = TRUE
  /\ Cardinality(Distinct) >= 2

====
